---------------------------- MODULE Spec2Model ----------------------------
(***************************************************************************)
(* Task scheduling and execution engine of server-manager                  *)
(* (src/app/scheduler.py over the ledger of src/app/database.py).          *)
(*                                                                         *)
(* One asyncio event loop runs everything: the code between two awaits is  *)
(* one atomic step.  The clock counts ticks of TermWaitSeconds (5 s); all  *)
(* durations of the model are multiples of it.                             *)
(***************************************************************************)
EXTENDS Integers, FiniteSets, Sequences, TLC

\* ------------------------------------------------------------------------
\* Bounds of the model
\* ------------------------------------------------------------------------
MaxExec == 1
MaxTime == 1
MaxFaults == 1
\* ticks by which the job store may be late in looking at a due job
MaxLate == 3
\* the clock's last tick in the specification where the event loop is late
MaxLateTime == 8

\* ------------------------------------------------------------------------
\* Program constants
\* ------------------------------------------------------------------------
\* None of an Optional[int] / Optional[datetime] field
NoneVal == -100
\* job_defaults['max_instances']
MaxInstances == 1
\* job_defaults['misfire_grace_time'], seconds
MisfireGraceSeconds == 30
\* asyncio.wait_for(process.wait(), timeout=5), seconds; also the clock's tick
TermWaitSeconds == 5
\* exit_code of a timed-out execution
TimeoutExitCode == -1
\* returncode of a child ended by SIGTERM / SIGKILL
SigTermCode == -15
SigKillCode == -9

Ticks(seconds) == seconds \div TermWaitSeconds

TaskIds == {1, 2}
\* execution ids: one more than MaxExec, for the specification that admits an overlap
ExecIds == 1..(MaxExec + 1)

\* cron expressions after strip().split(): a sequence of fields
CronNone == <<>>
CronFive == <<"*", "*", "*", "*", "*">>
CronSixFast == <<"*/5", "*", "*", "*", "*", "*">>
CronThree == <<"*", "*", "*">>
CronBadField == <<"x", "*", "*", "*", "*">>
CronExprs == {CronNone, CronFive, CronSixFast, CronThree, CronBadField}
\* "*/5 * * * *": every five minutes
CronFiveMinutes == <<"*/5", "*", "*", "*", "*">>
\* valid 5-field expressions
FiveFieldExprs == {CronFive, CronFiveMinutes, <<"0", "*", "*", "*", "*">>}

TerminalStatuses == {"completed", "failed", "cancelled"}

VARIABLES
    is_running,          \* TaskScheduler.is_running
    now,                 \* wall clock, in ticks
    tasks,               \* ledger: tasks_db
    executions,          \* ledger: executions_db
    counter,             \* ledger: counters_db['executions']
    jobs,                \* APScheduler job store: task id -> handle
    submitted,           \* job instances submitted to the executor, not yet started
    coro,                \* execute_task invocations: the in-memory TaskExecution and the position
    running_processes,   \* TaskExecutor.running_processes (its keys)
    proc,                \* the child process of each execution
    raised,              \* exceptions that left execute_task for its caller
    faults,              \* ledger / process-inspection errors the environment may still raise
    limit                \* executions this run of the model admits

vars == <<is_running, now, tasks, executions, counter, jobs, submitted, coro,
          running_processes, proc, raised, faults, limit>>

\* ------------------------------------------------------------------------
\* Records
\* ------------------------------------------------------------------------
NoError == [kind |-> "none", arg |-> 0]

\* TaskExecution(task_id, task_name, command, status=PENDING)
NewExecution(task_id) ==
    [present |-> TRUE, task_id |-> task_id, status |-> "pending", created_at |-> NoneVal,
     started_at |-> NoneVal, completed_at |-> NoneVal, duration_seconds |-> NoneVal,
     exit_code |-> NoneVal, error_message |-> NoError]

NoExecution ==
    [present |-> FALSE, task_id |-> 0, status |-> "none", created_at |-> NoneVal,
     started_at |-> NoneVal, completed_at |-> NoneVal, duration_seconds |-> NoneVal,
     exit_code |-> NoneVal, error_message |-> NoError]

\* one invocation of execute_task: where it stands (pc), who called it (origin), the
\* task object it was given, its in-memory TaskExecution (exec), the deadline of the
\* wait it is suspended in, how it ended (result) and the outcome path it took (path)
NoCoro ==
    [pc |-> "none", origin |-> "none", task_id |-> 0, timeout_seconds |-> 0,
     exec |-> NoExecution, deadline |-> NoneVal, result |-> "none", path |-> "none"]

NoProc == [state |-> "none", returncode |-> NoneVal]

NoTrigger == [kind |-> "none", fields |-> <<>>, period |-> 0]

NoJob == [present |-> FALSE, next_run_time |-> NoneVal, trigger |-> NoTrigger]

\* ------------------------------------------------------------------------
\* Ledger (DatabaseManager)
\* ------------------------------------------------------------------------
\* a ledger whose update inserts the document when none has the id
UpdateExecutionUpsert(execs, id, updates) ==
    [execs EXCEPT ![id] = updates @@ [@ EXCEPT !.present = TRUE]]

\* tinydb update(updates, Execution.id == execution_id): no document, no change
UpdateExecution(execs, id, updates) ==
    IF execs[id].present THEN [execs EXCEPT ![id] = updates @@ @] ELSE execs

\* tinydb update(updates, Task.id == task_id)
UpdateTask(ts, id, updates) ==
    IF ts[id].present THEN [ts EXCEPT ![id] = updates @@ @] ELSE ts

\* an id one above the ids of the documents the table holds
GetNextIdFromTable(execs, count) ==
    LET held == {e \in ExecIds : execs[e].present}
    IN  IF held = {} THEN 1 ELSE (CHOOSE m \in held : \A e \in held : e <= m) + 1

\* _get_next_id('executions'): increments the count kept in counters_db, whatever
\* the executions table holds, and returns it
GetNextId(execs, count) == count + 1

\* delete_executions_by_filter: removes the records the filter matches (all of them
\* without a filter, else those whose name, command or output matches)
DeleteExecutionsByFilterIn(execs, matched) ==
    [e \in ExecIds |-> IF e \in matched THEN NoExecution ELSE execs[e]]

\* cleanup_old_executions: removes the records created before the cutoff
CleanupOldExecutionsIn(execs, cutoff) ==
    [e \in ExecIds |-> IF execs[e].present /\ execs[e].created_at < cutoff
                       THEN NoExecution ELSE execs[e]]

\* the faults a handler may meet at its fault points: at most `faults` of them
FaultSets(points) == {F \in SUBSET points : Cardinality(F) <= faults}


\* ------------------------------------------------------------------------
\* Triggers (CronTrigger / IntervalTrigger as schedule_task builds them)
\* ------------------------------------------------------------------------
\* a resolution that takes the fields as they are written
CronPartsAsWritten(expr) == expr

\* parts = cron_expression.strip().split(); a 5-field expression gets a "0" seconds field
CronParts(expr) == IF Len(expr) = 5 THEN <<"0">> \o expr ELSE expr

\* CronTrigger(second=..., minute=..., ...) raises on a field it cannot parse
CronFieldsParse(parts) == \A i \in 1..Len(parts) : parts[i] \in {"*", "0", "*/5"}

\* seconds between two fire times of a cron trigger whose fields from the hour on
\* are "*": the seconds field within the minute, the minute field within the hour
CronPeriodSeconds(parts) ==
    CASE parts[1] = "*/5" -> 5
      [] parts[1] = "0" /\ parts[2] = "*" -> 60
      [] parts[1] = "0" /\ parts[2] = "*/5" -> 300
      [] parts[1] = "0" /\ parts[2] = "0" -> 3600
      [] OTHER -> 1

\* a resolution that falls back to the interval when the cron expression is invalid
ResolveTriggerFallsBack(task) ==
    LET parts == CronParts(task.cron_expression)
        byInterval ==
            IF task.interval_seconds # NoneVal /\ task.interval_seconds > 0
            THEN [res |-> "ok",
                  trigger |-> [kind |-> "interval", fields |-> <<>>,
                               period |-> Ticks(task.interval_seconds)]]
            ELSE [res |-> "none", trigger |-> NoTrigger]
    IN  IF task.cron_expression = CronNone THEN byInterval
        ELSE IF Len(parts) = 6 /\ CronFieldsParse(parts)
        THEN [res |-> "ok",
              trigger |-> [kind |-> "cron", fields |-> parts,
                           period |-> Ticks(CronPeriodSeconds(parts))]]
        ELSE IF byInterval.res = "ok" THEN byInterval
        ELSE [res |-> "invalid", trigger |-> NoTrigger]

\* a resolution that prefers the interval when the task has both
ResolveTriggerIntervalFirst(task) ==
    IF task.interval_seconds # NoneVal /\ task.interval_seconds > 0
    THEN [res |-> "ok",
          trigger |-> [kind |-> "interval", fields |-> <<>>,
                       period |-> Ticks(task.interval_seconds)]]
    ELSE IF task.cron_expression = CronNone
    THEN [res |-> "none", trigger |-> NoTrigger]
    ELSE LET parts == CronParts(task.cron_expression) IN
         IF Len(parts) = 6 /\ CronFieldsParse(parts)
         THEN [res |-> "ok",
               trigger |-> [kind |-> "cron", fields |-> parts,
                            period |-> Ticks(CronPeriodSeconds(parts))]]
         ELSE [res |-> "invalid", trigger |-> NoTrigger]

\* the trigger schedule_task resolves for a task: "ok" with the trigger, "invalid"
\* (the two early returns of the cron branch) or "none" (no schedule configured)
ResolveTrigger(task) ==
    IF task.cron_expression # CronNone
    THEN LET parts == CronParts(task.cron_expression) IN
         IF Len(parts) = 6 /\ CronFieldsParse(parts)
         THEN [res |-> "ok",
               trigger |-> [kind |-> "cron", fields |-> parts,
                            period |-> Ticks(CronPeriodSeconds(parts))]]
         ELSE [res |-> "invalid", trigger |-> NoTrigger]
    ELSE IF task.interval_seconds # NoneVal /\ task.interval_seconds > 0
         THEN [res |-> "ok",
               trigger |-> [kind |-> "interval", fields |-> <<>>,
                            period |-> Ticks(task.interval_seconds)]]
         ELSE [res |-> "none", trigger |-> NoTrigger]

\* trigger.get_next_fire_time(None, now): a cron trigger fires on the multiples of its
\* period, an interval trigger starts one interval after its creation
FirstFireTime(trigger, t) ==
    IF trigger.kind = "cron"
    THEN ((t \div trigger.period) + 1) * trigger.period
    ELSE t + trigger.period

\* a job store that takes the time it looks at a due job for the job's fire time
LastRunTimeObserved(job, t) == t

\* the last fire time of a due job that is not after t (coalesce: run_times[-1:])
LastRunTime(job, t) ==
    job.next_run_time + ((t - job.next_run_time) \div job.trigger.period) * job.trigger.period

\* trigger.get_next_fire_time(run_times[-1], now)
NextFireTime(trigger, previous) == previous + trigger.period

\* ------------------------------------------------------------------------
\* TaskScheduler.schedule_task / unschedule_task / reload_tasks on (jobs, tasks)
\* ------------------------------------------------------------------------
\* a schedule_task that neither removes nor replaces a handle the task already has:
\* add_job then conflicts with it and the old handle stays
ScheduleTaskKeepExisting(st, running, task, fail, t) ==
    IF ~running \/ st.jobs[task.id].present THEN st
    ELSE LET r == ResolveTrigger(task)
         IN  CASE r.res = "invalid" -> st
               [] r.res = "ok" ->
                    LET job == [present |-> TRUE,
                                next_run_time |-> FirstFireTime(r.trigger, t),
                                trigger |-> r.trigger]
                    IN  [jobs |-> [st.jobs EXCEPT ![task.id] = job],
                         tasks |-> UpdateTask(st.tasks, task.id,
                                              [next_run_at |-> job.next_run_time])]
               [] OTHER ->
                    [st EXCEPT !.tasks = UpdateTask(st.tasks, task.id,
                                                    [next_run_at |-> NoneVal])]

\* st = [jobs, tasks]; task is the caller's ScheduledTask object; fail: update_task raises
ScheduleTask(st, running, task, fail, t) ==
    IF ~running THEN st
    ELSE LET removed == [st.jobs EXCEPT ![task.id] = NoJob]
             r == ResolveTrigger(task)
         IN  CASE r.res = "invalid" -> [st EXCEPT !.jobs = removed]
               [] r.res = "ok" ->
                    LET job == [present |-> TRUE,
                                next_run_time |-> FirstFireTime(r.trigger, t),
                                trigger |-> r.trigger]
                    IN  [jobs |-> [removed EXCEPT ![task.id] = job],
                         tasks |-> IF fail THEN st.tasks
                                   ELSE UpdateTask(st.tasks, task.id,
                                                   [next_run_at |-> job.next_run_time])]
               [] OTHER ->
                    [jobs |-> removed,
                     tasks |-> IF fail THEN st.tasks
                               ELSE UpdateTask(st.tasks, task.id, [next_run_at |-> NoneVal])]

\* an unschedule_task that clears next_run_at and leaves the handle in the registry
UnscheduleTaskLedgerOnly(st, id, fail) ==
    [st EXCEPT !.tasks = UpdateTask(st.tasks, id, [next_run_at |-> NoneVal])]

\* an unschedule_task that removes the handle and leaves next_run_at in the ledger
UnscheduleTaskKeepNextRun(st, id, fail) ==
    [st EXCEPT !.jobs = [st.jobs EXCEPT ![id] = NoJob]]

\* st = [jobs, tasks]; fail: update_task raises (caught at line 414)
UnscheduleTask(st, id, fail) ==
    [jobs |-> [st.jobs EXCEPT ![id] = NoJob],
     tasks |-> IF fail THEN st.tasks ELSE UpdateTask(st.tasks, id, [next_run_at |-> NoneVal])]

\* db_manager.get_task(task_id): the task as the ledger holds it
GetTask(ts, id) == ts[id]

\* for task in get_enabled_tasks(): schedule_task(task), in the ledger's order
RECURSIVE ScheduleAll(_, _, _, _, _)
ScheduleAll(st, running, ids, F, t) ==
    IF ids = {} THEN st
    ELSE LET id == CHOOSE i \in ids : \A j \in ids : i <= j
             st1 == IF st.tasks[id].present /\ st.tasks[id].enabled
                    THEN ScheduleTask(st, running, GetTask(st.tasks, id), id \in F, t)
                    ELSE st
         IN  ScheduleAll(st1, running, ids \ {id}, F, t)

\* a reload_tasks without remove_all_jobs: the handles it finds stay
ReloadTasksKeepJobs(st, running, F, t) ==
    IF ~running THEN st
    ELSE ScheduleAll(st, running, TaskIds, F, t)

ReloadTasks(st, running, F, t) ==
    IF ~running THEN st
    ELSE ScheduleAll([st EXCEPT !.jobs = [i \in TaskIds |-> NoJob]], running, TaskIds, F, t)


\* ------------------------------------------------------------------------
\* TaskExecutor: the tail of execute_shell_task and execute_task
\* ------------------------------------------------------------------------
ExceptionText == [kind |-> "exception", arg |-> 0]

\* completed_at = now(); duration_seconds = completed_at - started_at  (lines 112-113)
Stamp(x, t) ==
    [x EXCEPT !.completed_at = t, !.duration_seconds = (t - x.started_at) * TermWaitSeconds]

\* except Exception (lines 115-121)
ShellException(x, t) ==
    [x EXCEPT !.status = "failed", !.error_message = ExceptionText, !.completed_at = t,
              !.duration_seconds = IF x.started_at # NoneVal
                                   THEN (t - x.started_at) * TermWaitSeconds
                                   ELSE x.duration_seconds]

\* the fields update_execution persists at lines 124-133
FinalFields(x) ==
    [status |-> x.status, completed_at |-> x.completed_at,
     duration_seconds |-> x.duration_seconds, exit_code |-> x.exit_code,
     error_message |-> x.error_message]

\* a last_run_at that is the time the run started
LastRunAtStart(x, t) ==
    [last_run_at |-> x.started_at]

\* a run that also moves the task's persisted next-fire time
LastRunAsNextRun(x, t) ==
    [last_run_at |-> IF x.completed_at # NoneVal THEN x.completed_at ELSE t,
     next_run_at |-> t]

\* line 164: update_task(task.id, {'last_run_at': execution.completed_at or now()})
LastRunFields(x, t) ==
    [last_run_at |-> IF x.completed_at # NoneVal THEN x.completed_at ELSE t]

\* a tail that, when the task's handle is gone, computes the next fire time from the
\* task's own trigger and persists that
FinalizeFromTrigger(execs, ts, jbs, e, c, x, F, t) ==
    LET fail124 == "upd124" \in F
        ex1 == IF fail124 THEN execs ELSE UpdateExecution(execs, e, FinalFields(x))
        fail164 == ~fail124 /\ "task164" \in F
        caught == fail124 \/ fail164
        ts1 == IF caught THEN ts
               ELSE UpdateTask(ts, c.task_id, LastRunFields(x, t))
        x2 == IF caught
              THEN [x EXCEPT !.status = "failed", !.error_message = ExceptionText,
                             !.completed_at = t]
              ELSE x
        fail175 == caught /\ "upd175" \in F
        ex2 == IF caught /\ ~fail175
               THEN UpdateExecution(ex1, e, [status |-> x2.status,
                                             error_message |-> x2.error_message,
                                             completed_at |-> x2.completed_at])
               ELSE ex1
        job == jbs[c.task_id]
        r == ResolveTrigger(ts[c.task_id])
        next == IF job.present THEN job.next_run_time
                ELSE IF r.res = "ok" THEN FirstFireTime(r.trigger, t) ELSE NoneVal
        reach440 == c.origin = "sched" /\ ~fail175 /\ next # NoneVal
        fail440 == reach440 /\ "task440" \in F
        ts2 == IF reach440 /\ ~fail440
               THEN UpdateTask(ts1, c.task_id, [next_run_at |-> next])
               ELSE ts1
        n(b) == IF b THEN 1 ELSE 0
    IN  [executions |-> ex2, tasks |-> ts2, exec |-> x2,
         result |-> IF fail175 THEN "raised" ELSE "returned",
         used |-> n(fail124) + n(fail164) + n(fail175) + n(fail440)]

\* lines 123-135, 159-183 and 436-442: persist the outcome x of execution e, update the
\* task's last_run_at, and after a scheduled firing its next_run_at.  F: the ledger
\* writes that raise ("upd124", "task164", "upd175", "task440").
Finalize(execs, ts, jbs, e, c, x, F, t) ==
    LET fail124 == "upd124" \in F
        ex1 == IF fail124 THEN execs ELSE UpdateExecution(execs, e, FinalFields(x))
        fail164 == ~fail124 /\ "task164" \in F
        caught == fail124 \/ fail164
        ts1 == IF caught THEN ts
               ELSE UpdateTask(ts, c.task_id, LastRunFields(x, t))
        x2 == IF caught
              THEN [x EXCEPT !.status = "failed", !.error_message = ExceptionText,
                             !.completed_at = t]
              ELSE x
        fail175 == caught /\ "upd175" \in F
        ex2 == IF caught /\ ~fail175
               THEN UpdateExecution(ex1, e, [status |-> x2.status,
                                             error_message |-> x2.error_message,
                                             completed_at |-> x2.completed_at])
               ELSE ex1
        job == jbs[c.task_id]
        reach440 == c.origin = "sched" /\ ~fail175 /\ job.present
                    /\ job.next_run_time # NoneVal
        fail440 == reach440 /\ "task440" \in F
        ts2 == IF reach440 /\ ~fail440
               THEN UpdateTask(ts1, c.task_id, [next_run_at |-> job.next_run_time])
               ELSE ts1
        n(b) == IF b THEN 1 ELSE 0
    IN  [executions |-> ex2, tasks |-> ts2, exec |-> x2,
         result |-> IF fail175 THEN "raised" ELSE "returned",
         used |-> n(fail124) + n(fail164) + n(fail175) + n(fail440)]

\* a tail that launches the command again when the run failed and the task has
\* max_retries > 0
FinishRetrying(e, c, x, F, path) ==
    LET f == Finalize(executions, tasks, jobs, e, c, x, F, now)
        again == f.exec.status = "failed" /\ GetTask(tasks, c.task_id).max_retries > 0
    IN  /\ f.used <= faults
        /\ executions' = f.executions
        /\ tasks' = f.tasks
        /\ coro' = [coro EXCEPT ![e] = [c EXCEPT !.pc = IF again THEN "launching" ELSE "done",
                                                !.exec = f.exec,
                                                !.result = f.result, !.path = path]]
        /\ raised' = IF f.result = "raised" THEN raised + 1 ELSE raised
        /\ faults' = faults - f.used

\* the coroutine of execution e ends: the variables the tail changes
Finish(e, c, x, F, path) ==
    LET f == Finalize(executions, tasks, jobs, e, c, x, F, now) IN
    /\ f.used <= faults
    /\ executions' = f.executions
    /\ tasks' = f.tasks
    /\ coro' = [coro EXCEPT ![e] = [c EXCEPT !.pc = "done", !.exec = f.exec,
                                            !.result = f.result, !.path = path]]
    /\ raised' = IF f.result = "raised" THEN raised + 1 ELSE raised
    /\ faults' = faults - f.used

FinishFaults == {"upd124", "task164", "upd175", "task440"}


\* ------------------------------------------------------------------------
\* Outcomes of the wait (execute_shell_task, lines 76-110)
\* ------------------------------------------------------------------------
\* an outcome that takes any exit within the timeout as a success
NormalOutcomeCompleted(x, rc) ==
    [x EXCEPT !.exit_code = rc, !.status = "completed"]

\* lines 83-92: the process exited within the timeout with return code rc
NormalOutcome(x, rc) ==
    [x EXCEPT !.exit_code = rc,
              !.status = IF rc = 0 THEN "completed" ELSE "failed",
              !.error_message = IF rc = 0 THEN x.error_message
                                ELSE [kind |-> "exit_code", arg |-> rc]]

\* a timeout reported as the exit of the signalled process
TimeoutOutcomeAsExit(x, timeout_seconds) == NormalOutcome(x, SigTermCode)

\* lines 103-105: the wait timed out and the process has been terminated
TimeoutOutcome(x, timeout_seconds) ==
    [x EXCEPT !.status = "failed",
              !.error_message = [kind |-> "timeout", arg |-> timeout_seconds],
              !.exit_code = TimeoutExitCode]

\* a finally block that leaves the entry
KeepRegistered(rp, e) == rp

\* lines 107-110: finally: del self.running_processes[execution.id]
Unregister(rp, e) == rp \ {e}

\* line 74: self.running_processes[execution.id] = process
Register(rp, e) == rp \cup {e}

\* instances of job task_<t> the executor counts: submitted or running _execute_task_job
Instances(t) ==
    Len(submitted[t])
    + Cardinality({e \in ExecIds : /\ coro[e].origin = "sched"
                                   /\ coro[e].task_id = t
                                   /\ coro[e].pc \notin {"none", "done"}})

\* ------------------------------------------------------------------------
\* Initial state: the scheduler constructed over a ledger that holds two tasks
\* ------------------------------------------------------------------------
\* max_retries of the tasks of the initial ledger
RetriesConfigured == 2

Task(id, enabled, cron, interval) ==
    [present |-> TRUE, id |-> id, enabled |-> enabled, cron_expression |-> cron,
     interval_seconds |-> interval, timeout_seconds |-> TermWaitSeconds,
     max_retries |-> RetriesConfigured,
     next_run_at |-> NoneVal, last_run_at |-> NoneVal]

\* get_task(id) of a task the ledger does not hold: None
NoTask ==
    [present |-> FALSE, id |-> 0, enabled |-> FALSE, cron_expression |-> CronNone,
     interval_seconds |-> NoneVal, timeout_seconds |-> 0, max_retries |-> 0,
     next_run_at |-> NoneVal, last_run_at |-> NoneVal]

\* DatabaseManager.delete_task: the task's execution records go with it.  The slot
\* keeps the id: the ledger's counter has handed it out and never does so again.
DeleteTask(led, id) ==
    [tasks |-> [led.tasks EXCEPT ![id] = [NoTask EXCEPT !.id = id]],
     executions |-> [e \in ExecIds |-> IF led.executions[e].task_id = id
                                       THEN NoExecution ELSE led.executions[e]]]

\* task 1 runs every 5 seconds, task 2 is disabled
InitLedger ==
    [i \in TaskIds |-> IF i = 1 THEN Task(1, TRUE, CronSixFast, NoneVal)
                                ELSE Task(2, FALSE, CronNone, TermWaitSeconds)]

InitCommon ==
    /\ is_running = FALSE
    /\ now = 0
    /\ tasks = InitLedger
    /\ executions = [e \in ExecIds |-> NoExecution]
    /\ counter = 0
    /\ jobs = [t \in TaskIds |-> NoJob]
    /\ submitted = [t \in TaskIds |-> <<>>]
    /\ coro = [e \in ExecIds |-> NoCoro]
    /\ running_processes = {}
    /\ proc = [e \in ExecIds |-> NoProc]
    /\ raised = 0

Init == InitCommon /\ faults = 0 /\ limit = MaxExec

\* the same, with room for one more execution: two runs can overlap
InitOverlap == InitCommon /\ faults = 0 /\ limit = MaxExec + 1

\* a ledger that holds task 1 only: the next task created gets id 2
InitCreate ==
    /\ is_running = FALSE
    /\ now = 0
    /\ tasks = [i \in TaskIds |-> IF i = 1 THEN InitLedger[1] ELSE NoTask]
    /\ executions = [e \in ExecIds |-> NoExecution]
    /\ counter = 0
    /\ jobs = [t \in TaskIds |-> NoJob]
    /\ submitted = [t \in TaskIds |-> <<>>]
    /\ coro = [e \in ExecIds |-> NoCoro]
    /\ running_processes = {}
    /\ proc = [e \in ExecIds |-> NoProc]
    /\ raised = 0
    /\ faults = 0
    /\ limit = MaxExec

InitFault == InitCommon /\ faults = MaxFaults /\ limit = MaxExec

\* ------------------------------------------------------------------------
\* Clock
\* ------------------------------------------------------------------------
\* a step of the event loop that is ready to run: the loop runs it before 5 s pass
Ready ==
    \/ \E t \in TaskIds : submitted[t] # <<>> /\ counter < limit
    \/ \E e \in ExecIds :
          \/ coro[e].pc = "launching"
          \/ coro[e].pc \in {"waiting", "terminating", "killing"} /\ proc[e].state = "exited"

Tick ==
    /\ now <= MaxTime
    /\ is_running
    /\ ~Ready
    /\ now' = now + 1
    /\ UNCHANGED <<limit, is_running, tasks, executions, counter, jobs, submitted, coro,
                   running_processes, proc, raised, faults>>

\* ------------------------------------------------------------------------
\* TaskScheduler.start / stop  (lines 278-297)
\* ------------------------------------------------------------------------
\* a start() that reloads even when the scheduler already runs
StartTasksAlways(st, running, F, t) == ReloadTasks(st, TRUE, F, t)

\* what start() does to (jobs, tasks): nothing when already running (lines 280-281),
\* else reload_tasks with is_running set (lines 285-288)
StartTasks(st, running, F, t) ==
    IF running THEN st ELSE ReloadTasks(st, TRUE, F, t)

Start ==
    \E F \in FaultSets(TaskIds) :
        /\ ~is_running
        /\ is_running' = TRUE
        /\ LET st == StartTasks([jobs |-> jobs, tasks |-> tasks], is_running, F, now)
               hit == {t \in F : tasks[t].present /\ tasks[t].enabled
                                 /\ ResolveTrigger(tasks[t]).res # "invalid"}
           IN  /\ hit = F
               /\ jobs' = st.jobs
               /\ tasks' = st.tasks
               /\ faults' = faults - Cardinality(F)
        /\ UNCHANGED <<limit, now, executions, counter, submitted, coro,
                       running_processes, proc, raised>>

\* scheduler.shutdown(): the job store is emptied; AsyncIOExecutor.shutdown cancels
\* the futures of the job instances it still runs (cancel = TRUE) or, in a build whose
\* executor leaves them alone, does not (cancel = FALSE).  A cancelled instance gets
\* CancelledError at its await: only the finally block of lines 107-110 runs.
Stop ==
    \E cancel \in BOOLEAN :
        LET hit == IF cancel
                   THEN {e \in ExecIds : coro[e].origin = "sched"
                                         /\ coro[e].pc \notin {"none", "done"}}
                   ELSE {}
        IN  /\ is_running
            /\ is_running' = FALSE
            /\ jobs' = [t \in TaskIds |-> NoJob]
            /\ submitted' = IF cancel THEN [t \in TaskIds |-> <<>>] ELSE submitted
            /\ coro' = [e \in ExecIds |->
                          IF e \in hit
                          THEN [coro[e] EXCEPT !.pc = "done", !.result = "cancelled_error",
                                               !.path = "stopped"]
                          ELSE coro[e]]
            /\ running_processes' = running_processes \ hit
            /\ UNCHANGED <<limit, now, tasks, executions, counter, proc, raised, faults>>


\* ------------------------------------------------------------------------
\* TaskExecutor.execute_task up to its first await  (lines 138-161, 39-71)
\* ------------------------------------------------------------------------
\* create_execution, status RUNNING persisted, then await create_subprocess_shell.
\* F: "create" (create_execution raises, out of execute_task), "upd43" (the first
\* update_execution raises: caught at line 115, the process is never launched).
BeginExecution(origin, task, F) ==
    IF "create" \in F
    THEN /\ faults >= 1
         /\ faults' = faults - 1
         /\ raised' = raised + 1
         /\ UNCHANGED <<executions, tasks, counter, coro>>
    ELSE LET e == GetNextId(executions, counter)
             x0 == [NewExecution(task.id) EXCEPT !.created_at = now]
             created == [executions EXCEPT ![e] = x0]
             x1 == [x0 EXCEPT !.status = "running", !.started_at = now]
             c == [NoCoro EXCEPT !.pc = "launching", !.origin = origin,
                                 !.task_id = task.id,
                                 !.timeout_seconds = task.timeout_seconds,
                                 !.exec = x1]
         IN  /\ counter' = e
             /\ IF "upd43" \in F
                THEN LET f == Finalize(created, tasks, jobs, e, c,
                                       ShellException(x1, now), F, now)
                     IN  /\ f.used + 1 <= faults
                         /\ raised' = IF f.result = "raised" THEN raised + 1 ELSE raised
                         /\ faults' = faults - (f.used + 1)
                         /\ executions' = f.executions
                         /\ tasks' = f.tasks
                         /\ coro' = [coro EXCEPT ![e] =
                                       [c EXCEPT !.pc = "done", !.exec = f.exec,
                                                 !.result = f.result,
                                                 !.path = "persist_error"]]
                ELSE /\ executions' = UpdateExecution(created, e,
                                         [status |-> "running", started_at |-> now])
                     /\ coro' = [coro EXCEPT ![e] = c]
                     /\ UNCHANGED <<tasks, raised, faults>>

BeginFaults == {"create", "upd43"} \cup FinishFaults

\* an execute_task_now that runs whatever get_task returned
ExecuteTaskNowRunsAlways(ts, t) == TRUE

\* lines 454-457: the task is read from the ledger; without it the call returns None
ExecuteTaskNowRuns(ts, t) == GetTask(ts, t).present

\* TaskScheduler.execute_task_now  (lines 444-459)
ExecuteTaskNow(t) ==
    \E F \in FaultSets(BeginFaults) :
        /\ counter < limit
        /\ IF ~ExecuteTaskNowRuns(tasks, t)
           THEN /\ F = {}
                /\ UNCHANGED <<executions, tasks, counter, coro, raised, faults>>
           ELSE BeginExecution("execute_task_now", GetTask(tasks, t), F)
        /\ UNCHANGED <<limit, is_running, now, jobs, submitted, running_processes, proc>>

\* ------------------------------------------------------------------------
\* The job store fires a due job  (job_defaults, lines 263-267)
\* ------------------------------------------------------------------------
\* a job store that submits every due run, whatever runs already
FireAlways(t) ==
    LET job == jobs[t]
        run_time == LastRunTime(job, now)
    IN  /\ is_running
        /\ job.present
        /\ job.next_run_time <= now
        /\ jobs' = [jobs EXCEPT ![t].next_run_time = NextFireTime(job.trigger, run_time)]
        /\ submitted' = [submitted EXCEPT ![t] = Append(@, run_time)]
        /\ UNCHANGED <<limit, is_running, now, tasks, executions, counter, coro,
                       running_processes, proc, raised, faults>>

\* coalesce: one run for all the fire times that are due; max_instances: no new
\* instance while MaxInstances of the job run; the handle moves to its next fire time
Fire(t) ==
    LET job == jobs[t]
        run_time == LastRunTime(job, now)
        skipped == Instances(t) >= MaxInstances
    IN  /\ is_running
        /\ job.present
        /\ job.next_run_time <= now
        /\ skipped \/ counter < limit
        /\ jobs' = [jobs EXCEPT ![t].next_run_time = NextFireTime(job.trigger, run_time)]
        /\ submitted' = IF skipped THEN submitted
                        ELSE [submitted EXCEPT ![t] = Append(@, run_time)]
        /\ UNCHANGED <<limit, is_running, now, tasks, executions, counter, coro,
                       running_processes, proc, raised, faults>>

\* a job that runs whatever the task's enabled flag says
SkipsMissingOnly(task) == ~ task.present

\* lines 425-432: the task is missing or disabled
SkipsFiring(task) == ~ task.present \/ ~ task.enabled

\* an executor that runs a firing however late it starts it
MisfiredNever(run_time, t) == FALSE

\* run_coroutine_job: the run time lies more than misfire_grace_time before now
Misfired(run_time, t) == t - run_time > Ticks(MisfireGraceSeconds)

\* run_coroutine_job starts: a run later than misfire_grace_time is dropped, else
\* _execute_task_job runs up to its first await  (lines 417-434)
JobStart(t) ==
    \E F \in FaultSets(BeginFaults) :
        /\ submitted[t] # <<>>
        /\ counter < limit
        /\ submitted' = [submitted EXCEPT ![t] = Tail(@)]
        /\ LET task == GetTask(tasks, t) IN
           IF Misfired(Head(submitted[t]), now)
           THEN /\ F = {}
                /\ UNCHANGED <<executions, tasks, counter, coro, raised, faults>>
           ELSE IF SkipsFiring(task)
           THEN /\ F = {}
                /\ UNCHANGED <<executions, tasks, counter, coro, raised, faults>>
           ELSE BeginExecution("sched", task, F)
        /\ UNCHANGED <<limit, is_running, now, jobs, running_processes, proc>>

\* ------------------------------------------------------------------------
\* execute_shell_task from the launch on  (lines 65-135)
\* ------------------------------------------------------------------------
\* create_subprocess_shell returns the process (ok) or raises (caught at line 115)
Launch(e) ==
    \E ok \in BOOLEAN, F \in FaultSets(FinishFaults) :
        LET c == coro[e] IN
        /\ c.pc = "launching"
        /\ IF ok
           THEN /\ F = {}
                /\ proc' = [proc EXCEPT ![e] = [state |-> "alive", returncode |-> NoneVal]]
                /\ running_processes' = Register(running_processes, e)
                /\ coro' = [coro EXCEPT ![e].pc = "waiting",
                                        ![e].deadline = now + Ticks(c.timeout_seconds)]
                /\ UNCHANGED <<executions, tasks, raised, faults>>
           ELSE /\ Finish(e, c, ShellException(c.exec, now), F, "launch_error")
                /\ UNCHANGED <<proc, running_processes>>
        /\ UNCHANGED <<limit, is_running, now, counter, jobs, submitted>>

\* the child process ends: by itself (0 or 1), or by the signal the timeout path sent
ProcExit(e) ==
    \E rc \in {0, 1, SigTermCode, SigKillCode} :
        /\ proc[e].state = "alive"
        /\ rc \in CASE coro[e].pc = "killing" -> {SigKillCode}
                    [] coro[e].pc = "terminating" -> {SigTermCode}
                    [] OTHER -> {0, 1}
        /\ proc' = [proc EXCEPT ![e].state = "exited", ![e].returncode = rc]
        /\ UNCHANGED <<limit, is_running, now, tasks, executions, counter, jobs, submitted, coro,
                       running_processes, raised, faults>>

\* communicate() returns within the timeout  (lines 78-92, 107-113, 123-135)
Complete(e) ==
    \E F \in FaultSets(FinishFaults) :
        LET c == coro[e] IN
        /\ c.pc = "waiting"
        /\ proc[e].state = "exited"
        /\ running_processes' = Unregister(running_processes, e)
        /\ Finish(e, c, Stamp(NormalOutcome(c.exec, proc[e].returncode), now), F, "normal")
        /\ UNCHANGED <<limit, is_running, now, counter, jobs, submitted, proc>>

\* asyncio.TimeoutError: process.terminate(), then wait up to 5 s  (lines 94-98)
Timeout(e) ==
    LET c == coro[e] IN
    /\ c.pc = "waiting"
    /\ proc[e].state = "alive"
    /\ now >= c.deadline
    /\ coro' = [coro EXCEPT ![e].pc = "terminating",
                            ![e].deadline = now + Ticks(TermWaitSeconds)]
    /\ UNCHANGED <<limit, is_running, now, tasks, executions, counter, jobs, submitted,
                   running_processes, proc, raised, faults>>

\* the terminated process is gone within the 5 s  (lines 98, 103-113, 123-135)
TermExited(e) ==
    \E F \in FaultSets(FinishFaults) :
        LET c == coro[e] IN
        /\ c.pc = "terminating"
        /\ proc[e].state = "exited"
        /\ running_processes' = Unregister(running_processes, e)
        /\ Finish(e, c, Stamp(TimeoutOutcome(c.exec, c.timeout_seconds), now), F, "timeout")
        /\ UNCHANGED <<limit, is_running, now, counter, jobs, submitted, proc>>

\* the 5 s are over and the process is still there: process.kill()  (lines 99-101)
TermExpire(e) ==
    LET c == coro[e] IN
    /\ c.pc = "terminating"
    /\ proc[e].state = "alive"
    /\ now >= c.deadline
    /\ coro' = [coro EXCEPT ![e].pc = "killing", ![e].deadline = NoneVal]
    /\ UNCHANGED <<limit, is_running, now, tasks, executions, counter, jobs, submitted,
                   running_processes, proc, raised, faults>>

\* process.wait() returns after the kill  (lines 101, 103-113, 123-135)
Killed(e) ==
    \E F \in FaultSets(FinishFaults) :
        LET c == coro[e] IN
        /\ c.pc = "killing"
        /\ proc[e].state = "exited"
        /\ running_processes' = Unregister(running_processes, e)
        /\ Finish(e, c, Stamp(TimeoutOutcome(c.exec, c.timeout_seconds), now), F, "timeout")
        /\ UNCHANGED <<limit, is_running, now, counter, jobs, submitted, proc>>


\* ------------------------------------------------------------------------
\* TaskExecutor.cancel_task_execution  (lines 185-246)
\* ------------------------------------------------------------------------
CancelledText == [kind |-> "cancelled", arg |-> 0]

\* lines 231-236
CancelFields(t) ==
    [status |-> "cancelled", error_message |-> CancelledText, completed_at |-> t]

\* A synchronous call: nothing else runs until it returns.  outcome: the process is
\* gone when the wait of line 215 ends (or was gone already: NoSuchProcess), it is
\* still alive after the 5 s of psutil.wait_procs, or psutil raises another error
\* (caught at line 244).  fail: update_execution of line 232 raises.
\* The result: what the call returns (ret) and the state it leaves.
\* a cancel_task_execution that takes a process that is gone already for an error
CancelResultGoneIsError(e, outcome, fail) ==
    LET same == [ret |-> FALSE, now |-> now, executions |-> executions,
                 running_processes |-> running_processes, proc |-> proc]
        t == IF outcome = "alive" THEN now + Ticks(TermWaitSeconds) ELSE now
        signalled == IF proc[e].state = "alive" /\ outcome = "gone"
                     THEN [proc EXCEPT ![e].state = "exited",
                                       ![e].returncode = SigTermCode]
                     ELSE proc
    IN  IF e \notin running_processes THEN same
        ELSE IF outcome = "error" \/ proc[e].state = "exited" THEN same
        ELSE IF fail THEN [same EXCEPT !.now = t, !.proc = signalled]
        ELSE [ret |-> TRUE, now |-> t,
              executions |-> UpdateExecution(executions, e, CancelFields(t)),
              running_processes |-> Unregister(running_processes, e),
              proc |-> signalled]

\* a cancel_task_execution without the test of lines 195-196
CancelResultUnguarded(e, outcome, fail) ==
    LET same == [ret |-> FALSE, now |-> now, executions |-> executions,
                 running_processes |-> running_processes, proc |-> proc]
        t == IF outcome = "alive" THEN now + Ticks(TermWaitSeconds) ELSE now
        signalled == IF proc[e].state = "alive" /\ outcome = "gone"
                     THEN [proc EXCEPT ![e].state = "exited",
                                       ![e].returncode = SigTermCode]
                     ELSE proc
    IN  IF outcome = "error" THEN same
        ELSE IF fail THEN [same EXCEPT !.now = t, !.proc = signalled]
        ELSE [ret |-> TRUE, now |-> t,
              executions |-> UpdateExecution(executions, e, CancelFields(t)),
              running_processes |-> Unregister(running_processes, e),
              proc |-> signalled]

\* a cancel_task_execution that persists the cancellation and leaves the entry in
\* running_processes
CancelResultKeepsEntry(e, outcome, fail) ==
    LET same == [ret |-> FALSE, now |-> now, executions |-> executions,
                 running_processes |-> running_processes, proc |-> proc]
        t == IF outcome = "alive" THEN now + Ticks(TermWaitSeconds) ELSE now
        signalled == IF proc[e].state = "alive" /\ outcome = "gone"
                     THEN [proc EXCEPT ![e].state = "exited",
                                       ![e].returncode = SigTermCode]
                     ELSE proc
    IN  IF e \notin running_processes THEN same
        ELSE IF outcome = "error" THEN same
        ELSE IF fail THEN [same EXCEPT !.now = t, !.proc = signalled]
        ELSE [ret |-> TRUE, now |-> t,
              executions |-> UpdateExecution(executions, e, CancelFields(t)),
              running_processes |-> running_processes,
              proc |-> signalled]

CancelResult(e, outcome, fail) ==
    LET same == [ret |-> FALSE, now |-> now, executions |-> executions,
                 running_processes |-> running_processes, proc |-> proc]
        t == IF outcome = "alive" THEN now + Ticks(TermWaitSeconds) ELSE now
        signalled == IF proc[e].state = "alive" /\ outcome = "gone"
                     THEN [proc EXCEPT ![e].state = "exited",
                                       ![e].returncode = SigTermCode]
                     ELSE proc
    IN  IF e \notin running_processes THEN same
        ELSE IF outcome = "error" THEN same
        ELSE IF fail THEN [same EXCEPT !.now = t, !.proc = signalled]
        ELSE [ret |-> TRUE, now |-> t,
              executions |-> UpdateExecution(executions, e, CancelFields(t)),
              running_processes |-> Unregister(running_processes, e),
              proc |-> signalled]

CancelCall(e, outcome, fail) ==
    LET r == CancelResult(e, outcome, fail) IN
    /\ e \notin running_processes => outcome = "gone" /\ ~fail
    /\ outcome = "error" => ~fail /\ faults >= 1
    /\ outcome = "alive" => proc[e].state = "alive" /\ now <= MaxTime
    /\ fail => faults >= 1
    /\ now' = r.now
    /\ executions' = r.executions
    /\ running_processes' = r.running_processes
    /\ proc' = r.proc
    /\ faults' = IF e \in running_processes /\ (fail \/ outcome = "error")
                 THEN faults - 1 ELSE faults
    /\ UNCHANGED <<limit, is_running, tasks, counter, jobs, submitted, coro, raised>>

CancelTaskExecution(e) ==
    \E outcome \in {"gone", "alive", "error"}, fail \in BOOLEAN : CancelCall(e, outcome, fail)

\* ------------------------------------------------------------------------
\* PUT /api/tasks/{task_id} with a new cron expression  (api.py, lines 260-276)
\* ------------------------------------------------------------------------
ApiUpdateTask(t, cron) ==
    \E F \in FaultSets({"unsched", "sched"}) :
        LET ts0 == UpdateTask(tasks, t, [cron_expression |-> cron])
            task == GetTask(ts0, t)
            st1 == UnscheduleTask([jobs |-> jobs, tasks |-> ts0], t, "unsched" \in F)
            resched == task.enabled /\ is_running
            st2 == IF task.enabled
                   THEN ScheduleTask(st1, is_running, task, "sched" \in F, now)
                   ELSE st1
        IN  /\ tasks[t].present
            /\ cron # tasks[t].cron_expression
            /\ "sched" \in F => resched /\ ResolveTrigger(task).res # "invalid"
            /\ jobs' = st2.jobs
            /\ tasks' = st2.tasks
            /\ faults' = faults - Cardinality(F)
            /\ UNCHANGED <<limit, is_running, now, executions, counter, submitted, coro,
                           running_processes, proc, raised>>

\* POST /api/tasks/{task_id}/toggle  (api.py, lines 306-327)
ApiToggleTask(t) ==
    LET task == GetTask(tasks, t)
        new_status == ~ task.enabled
        ts0 == UpdateTask(tasks, t, [enabled |-> new_status])
        st1 == UnscheduleTask([jobs |-> jobs, tasks |-> ts0], t, FALSE)
        st2 == IF new_status
               THEN ScheduleTask(st1, is_running, [task EXCEPT !.enabled = new_status],
                                 FALSE, now)
               ELSE st1
    IN  /\ task.present
        /\ jobs' = st2.jobs
        /\ tasks' = st2.tasks
        /\ UNCHANGED <<limit, is_running, now, executions, counter, submitted, coro,
                       running_processes, proc, raised, faults>>

\* DELETE /api/tasks/{task_id}  (api.py, lines 278-289)
ApiDeleteTask(t) ==
    LET st1 == UnscheduleTask([jobs |-> jobs, tasks |-> tasks], t, FALSE)
        led == DeleteTask([tasks |-> st1.tasks, executions |-> executions], t)
    IN  /\ tasks[t].present
        /\ jobs' = st1.jobs
        /\ tasks' = led.tasks
        /\ executions' = led.executions
        /\ UNCHANGED <<limit, is_running, now, counter, submitted, coro,
                       running_processes, proc, raised, faults>>

\* POST /api/tasks  (api.py, lines 206-234): db_manager.create_task gives the task
\* the next id of the ledger's counter and stores it as it was sent; an enabled task
\* is then handed to schedule_task
ApiCreateTask(enabled, cron, interval) ==
    \E id \in TaskIds :
        LET task == Task(id, enabled, cron, interval)
            ts0 == [tasks EXCEPT ![id] = task]
            st == IF enabled
                  THEN ScheduleTask([jobs |-> jobs, tasks |-> ts0], is_running, task,
                                    FALSE, now)
                  ELSE [jobs |-> jobs, tasks |-> ts0]
        IN  /\ tasks[id] = NoTask
            /\ \A i \in TaskIds : i < id => tasks[i] # NoTask
            /\ jobs' = st.jobs
            /\ tasks' = st.tasks
            /\ UNCHANGED <<limit, is_running, now, executions, counter, submitted, coro,
                           running_processes, proc, raised, faults>>

\* DELETE /api/executions  (api.py, lines 366-380): the filter matches some records
DeleteExecutionsByFilter(matched) ==
    /\ matched # {}
    /\ \A e \in matched : executions[e].present
    /\ executions' = DeleteExecutionsByFilterIn(executions, matched)
    /\ UNCHANGED <<limit, is_running, now, tasks, counter, jobs, submitted, coro,
                   running_processes, proc, raised, faults>>

\* the `days` of a cleanup request, any integer, as ticks: the cutoff lies just after
\* now, at now, or one tick before it
CleanupAges == {-1, 0, 1}

\* POST /api/maintenance/cleanup  (api.py, lines 489-495): records older than `age`
CleanupOldExecutions(age) ==
    /\ \E e \in ExecIds : executions[e].present /\ executions[e].created_at < now - age
    /\ executions' = CleanupOldExecutionsIn(executions, now - age)
    /\ UNCHANGED <<limit, is_running, now, tasks, counter, jobs, submitted, coro,
                   running_processes, proc, raised, faults>>

\* ------------------------------------------------------------------------
\* TaskScheduler.is_task_running / get_running_task_ids  (lines 502-526)
\* ------------------------------------------------------------------------
\* some registered execution id has a stored record (get_execution) of task t
IsTaskRunning(t) ==
    \E e \in running_processes : executions[e].present /\ executions[e].task_id = t

\* the task ids of the stored records of the registered execution ids, each once
GetRunningTaskIds ==
    {executions[e].task_id : e \in {x \in running_processes : executions[x].present}}

\* ------------------------------------------------------------------------
\* Direct calls of the scheduler's operations on a task of the ledger
\* ------------------------------------------------------------------------
\* schedule_task(get_task(t))  (lines 317-395)
ScheduleTaskCall(t) ==
    LET st == ScheduleTask([jobs |-> jobs, tasks |-> tasks], is_running,
                           GetTask(tasks, t), FALSE, now)
    IN  /\ tasks[t].present
        /\ jobs' = st.jobs
        /\ tasks' = st.tasks
        /\ UNCHANGED <<limit, is_running, now, executions, counter, submitted, coro,
                       running_processes, proc, raised, faults>>

\* unschedule_task(t)  (lines 397-415)
UnscheduleTaskCall(t) ==
    LET st == UnscheduleTask([jobs |-> jobs, tasks |-> tasks], t, FALSE)
    IN  /\ jobs' = st.jobs
        /\ tasks' = st.tasks
        /\ UNCHANGED <<limit, is_running, now, executions, counter, submitted, coro,
                       running_processes, proc, raised, faults>>

\* reload_tasks()  (lines 299-315)
ReloadTasksCall ==
    LET st == ReloadTasks([jobs |-> jobs, tasks |-> tasks], is_running, {}, now)
    IN  /\ jobs' = st.jobs
        /\ tasks' = st.tasks
        /\ UNCHANGED <<limit, is_running, now, executions, counter, submitted, coro,
                       running_processes, proc, raised, faults>>

\* ------------------------------------------------------------------------
\* Specifications
\* ------------------------------------------------------------------------
Next ==
    \/ Tick
    \/ Start
    \/ \E t \in TaskIds : ExecuteTaskNow(t)
    \/ \E t \in TaskIds : Fire(t)
    \/ \E t \in TaskIds : JobStart(t)
    \/ \E e \in ExecIds : Launch(e)
    \/ \E e \in ExecIds : ProcExit(e)
    \/ \E e \in ExecIds : Complete(e)
    \/ \E e \in ExecIds : Timeout(e)
    \/ \E e \in ExecIds : TermExited(e)
    \/ \E e \in ExecIds : TermExpire(e)
    \/ \E e \in ExecIds : Killed(e)
    \/ \E e \in ExecIds : CancelTaskExecution(e)

\* the engine with a ledger and a process table that never fail
Spec == Init /\ [][Next]_vars

\* the engine with a ledger that never fails, when two executions can overlap
SpecOverlap == InitOverlap /\ [][Next]_vars

\* the engine when up to MaxFaults ledger writes or process inspections raise
SpecFault == InitFault /\ [][Next]_vars

\* the schedule alone, under cron edits through the API and failing ledger writes
NextSched ==
    \/ Tick
    \/ Start
    \/ \E t \in TaskIds, cron \in CronExprs : ApiUpdateTask(t, cron)

SpecSched == InitFault /\ [][NextSched]_vars

\* the job registry alone, with a ledger that never fails: start, stop, edits through
\* the API and direct calls of schedule_task, unschedule_task and reload_tasks
NextRegistry ==
    \/ Tick
    \/ Start
    \/ Stop
    \/ \E t \in TaskIds, cron \in CronExprs : ApiUpdateTask(t, cron)
    \/ \E t \in TaskIds : ApiToggleTask(t)
    \/ \E t \in TaskIds : ApiDeleteTask(t)
    \/ \E t \in TaskIds : ScheduleTaskCall(t)
    \/ \E t \in TaskIds : UnscheduleTaskCall(t)
    \/ ReloadTasksCall

SpecRegistry == Init /\ [][NextRegistry]_vars

\* scheduled firings and their executions (a terminated process exits within the
\* wait), with a ledger that never fails, while tasks are toggled and deleted through
\* the API
NextEdit ==
    \/ Tick
    \/ Start
    \/ \E t \in TaskIds : Fire(t)
    \/ \E t \in TaskIds : JobStart(t)
    \/ \E e \in ExecIds : Launch(e)
    \/ \E e \in ExecIds : ProcExit(e)
    \/ \E e \in ExecIds : Complete(e)
    \/ \E e \in ExecIds : Timeout(e)
    \/ \E e \in ExecIds : TermExited(e)
    \/ \E t \in TaskIds : ApiToggleTask(t)
    \/ \E t \in TaskIds : ApiDeleteTask(t)

SpecEdit == Init /\ [][NextEdit]_vars

\* scheduled firings and their executions, with a ledger that never fails, while
\* executions are cancelled and tasks are deleted through the API
NextTable ==
    \/ Tick
    \/ Start
    \/ \E t \in TaskIds : Fire(t)
    \/ \E t \in TaskIds : JobStart(t)
    \/ \E e \in ExecIds : Launch(e)
    \/ \E e \in ExecIds : ProcExit(e)
    \/ \E e \in ExecIds : Complete(e)
    \/ \E e \in ExecIds : Timeout(e)
    \/ \E e \in ExecIds : TermExited(e)
    \/ \E e \in ExecIds : CancelTaskExecution(e)
    \/ \E t \in TaskIds : ApiDeleteTask(t)

SpecTable == Init /\ [][NextTable]_vars

\* executions started by hand, one more than MaxExec admitted, with a ledger that
\* never fails, while tasks and Execution Records are deleted
NextIds ==
    \/ \E t \in TaskIds : ExecuteTaskNow(t)
    \/ \E e \in ExecIds : Launch(e)
    \/ \E e \in ExecIds : ProcExit(e)
    \/ \E e \in ExecIds : Complete(e)
    \/ \E t \in TaskIds : ApiDeleteTask(t)
    \/ \E age \in CleanupAges : CleanupOldExecutions(age)
    \/ \E matched \in SUBSET ExecIds : DeleteExecutionsByFilter(matched)

SpecIds == InitOverlap /\ [][NextIds]_vars

\* the engine with a ledger that never fails, when the scheduler can be stopped
NextStop ==
    \/ Next
    \/ Stop

SpecStop == Init /\ [][NextStop]_vars

\* the schedule when tasks are created, edited, toggled and deleted through the API,
\* with a ledger that never fails
NextCreate ==
    \/ Tick
    \/ Start
    \/ Stop
    \/ \E enabled \in BOOLEAN, cron \in CronExprs \cup {CronFiveMinutes},
          interval \in {NoneVal, TermWaitSeconds} : ApiCreateTask(enabled, cron, interval)
    \/ \E t \in TaskIds, cron \in CronExprs : ApiUpdateTask(t, cron)
    \/ \E t \in TaskIds : ApiToggleTask(t)
    \/ \E t \in TaskIds : ApiDeleteTask(t)

SpecCreate == InitCreate /\ [][NextCreate]_vars

\* the event loop is held up (a blocking call, a suspended host): the clock moves on
\* by a tick, by the grace time or by more, whatever is ready to run
Delay ==
    \E d \in {1, Ticks(MisfireGraceSeconds), Ticks(MisfireGraceSeconds) + 1} :
        /\ now + d <= MaxLateTime
        /\ now' = now + d
        /\ UNCHANGED <<limit, is_running, tasks, executions, counter, jobs, submitted, coro,
                       running_processes, proc, raised, faults>>

\* scheduled firings and the executions that end by themselves, on an event loop
\* that can be late
NextLate ==
    \/ Delay
    \/ Start
    \/ \E t \in TaskIds : Fire(t)
    \/ \E t \in TaskIds : JobStart(t)
    \/ \E e \in ExecIds : Launch(e)
    \/ \E e \in ExecIds : ProcExit(e)
    \/ \E e \in ExecIds : Complete(e)

SpecLate == Init /\ [][NextLate]_vars

\* ------------------------------------------------------------------------
\* Claims
\* ------------------------------------------------------------------------
Active(e) == coro[e].pc \notin {"none", "done"}

\* C1: in every reachable state, running_processes holds at most one execution id
\* per task, whatever the interleaving of scheduled firings, execute_task_now calls
\* and cancel_task_execution calls.
C1_OneProcessPerTask ==
    \A e1, e2 \in running_processes :
        executions[e1].task_id = executions[e2].task_id => e1 = e2

\* C2: a firing that becomes due while a scheduled invocation of the same task has
\* not finished is skipped: the step creates no record and submits no run, and the
\* handle's next fire time moves to a later time, after the clock; the invocation
\* that was running persists that time as next_run_at when it ends.
C2_BusyFiringSkipped ==
    [][\A t \in TaskIds :
          LET running == {e \in ExecIds : /\ Active(e)
                                          /\ coro[e].origin = "sched"
                                          /\ coro[e].task_id = t}
          IN  /\ (/\ jobs[t].present /\ jobs'[t].present
                  /\ jobs'[t].next_run_time # jobs[t].next_run_time
                  /\ submitted[t] # <<>> \/ running # {})
                 => /\ executions' = executions
                    /\ counter' = counter
                    /\ coro' = coro
                    /\ submitted' = submitted
                    /\ jobs'[t].next_run_time > jobs[t].next_run_time
                    /\ jobs'[t].next_run_time > now
              /\ \A e \in running :
                    (coro'[e].pc = "done" /\ jobs[t].present)
                    => tasks'[t].next_run_at = jobs[t].next_run_time]_vars

\* the scheduled run of a task is still waiting for its process, one fire time has
\* passed since it started, nothing was submitted and the handle points past the clock
C2_Witness ==
    \E e \in ExecIds :
        LET t == coro[e].task_id IN
        /\ coro[e].origin = "sched"
        /\ coro[e].pc = "waiting"
        /\ now > coro[e].exec.started_at
        /\ submitted[t] = <<>>
        /\ jobs[t].present
        /\ jobs[t].next_run_time > now
        /\ Cardinality({x \in ExecIds : executions[x].present}) = 1

\* C3: cancel_task_execution on a registered execution returns true and persists
\* status cancelled, a second cancel of the same id returns false, and the persisted
\* status stays cancelled afterwards, also when the interrupted coroutine finishes.
C3_CancelledStays ==
    [][\A e \in ExecIds :
          /\ \A outcome \in {"gone", "alive"} :
                (e \in running_processes /\ CancelCall(e, outcome, FALSE))
                => /\ CancelResult(e, outcome, FALSE).ret
                   /\ executions'[e].status = "cancelled"
                   /\ \A second \in {"gone", "alive"} :
                         ~ (CancelResult(e, second, FALSE).ret)'
          /\ executions[e].status = "cancelled" => executions'[e].status = "cancelled"]_vars

\* the statuses a persisted record may take next
NextStatuses(status) ==
    CASE status = "none" -> {"none", "pending", "running"}
      [] status = "pending" -> {"pending", "running"}
      [] status = "running" -> {"running"} \cup TerminalStatuses
      [] OTHER -> {status}

\* C4: a record is created pending, moves only pending -> running -> terminal, and a
\* record whose persisted status is terminal is never changed again in any field.
C4_TerminalImmutable ==
    [][\A e \in ExecIds :
          /\ executions'[e].status \in NextStatuses(executions[e].status)
          /\ executions[e].status \in TerminalStatuses
             => executions'[e] = executions[e]]_vars

\* C5: when the process outlives timeout_seconds it is sent terminate, and kill only
\* once 5 s have passed; the execution ends failed with exit code -1 and the timeout
\* message, persisted so, with the process gone and its id out of running_processes.
C5_TimeoutFinalization ==
    [][\A e \in ExecIds :
          /\ (coro[e].pc = "waiting" /\ coro'[e].pc = "terminating")
             => /\ now >= coro[e].exec.started_at + Ticks(coro[e].timeout_seconds)
                /\ proc[e].state = "alive"
          /\ (coro[e].pc = "terminating" /\ coro'[e].pc = "killing")
             => now >= coro[e].deadline /\ proc[e].state = "alive"
          /\ (coro[e].pc \in {"terminating", "killing"} /\ coro'[e].pc # coro[e].pc)
             => \/ coro[e].pc = "terminating" /\ coro'[e].pc = "killing"
                \/ /\ coro'[e].pc = "done"
                   /\ coro'[e].result = "returned"
                   /\ coro'[e].exec.status = "failed"
                   /\ coro'[e].exec.exit_code = TimeoutExitCode
                   /\ coro'[e].exec.error_message
                        = [kind |-> "timeout", arg |-> coro[e].timeout_seconds]
                   /\ executions'[e].status = "failed"
                   /\ executions'[e].exit_code = TimeoutExitCode
                   /\ executions'[e].error_message.kind = "timeout"
                   /\ proc'[e].state = "exited"
                   /\ e \notin running_processes']_vars

\* a timed-out execution whose process had to be killed has been finalized
C5_Witness ==
    \E e \in ExecIds :
        /\ coro[e].pc = "done"
        /\ proc[e].returncode = SigKillCode
        /\ executions[e].status = "failed"
        /\ executions[e].exit_code = TimeoutExitCode
        /\ executions[e].error_message.kind = "timeout"
        /\ e \notin running_processes

\* C6 as stated: once execute_task has returned the id is not in running_processes,
\* and an id is in the table only while its process is alive.
C6_OnlyWhileProcessAlive ==
    \A e \in ExecIds :
        /\ coro[e].pc = "done" => e \notin running_processes
        /\ e \in running_processes => proc[e].state = "alive"

\* C6 amended: once execute_task has returned, on any outcome path, the id is not in
\* running_processes, and an id is in the table only from the launch of its process
\* until the executor that waits for the process has handled its end (a process that
\* has exited may still be registered until then).
C6_OnlyWhileExecutorWaits ==
    \A e \in ExecIds :
        /\ coro[e].pc = "done" => e \notin running_processes
        /\ e \in running_processes
           => /\ coro[e].pc \in {"waiting", "terminating", "killing"}
              /\ proc[e].state \in {"alive", "exited"}

\* execute_task has returned for an execution that was cancelled while it waited:
\* its process ended by the signal and its id is out of the table
C6_Witness ==
    \E e \in ExecIds :
        /\ coro[e].pc = "done"
        /\ coro[e].exec.exit_code = SigTermCode
        /\ proc[e].state = "exited"
        /\ e \notin running_processes

\* C7: when cancel_task_execution returns for a registered id, the id is no longer in
\* running_processes, also when inspecting or signalling the process raises or the
\* ledger update fails.
C7_CancelUnregisters ==
    [][\A e \in ExecIds :
          (e \in running_processes /\ CancelTaskExecution(e))
          => e \notin running_processes']_vars

\* C8: schedule_task on a task with a cron expression of a wrong field count or with
\* an unparsable field leaves the task without handle and with next_run_at absent,
\* also when next_run_at was set before the call.
C8_InvalidCronUnschedules ==
    [][\A t \in TaskIds, cron \in CronExprs :
          (/\ ApiUpdateTask(t, cron)
           /\ is_running
           /\ tasks'[t].enabled
           /\ ResolveTrigger(tasks'[t]).res = "invalid")
          => /\ ~ jobs'[t].present
             /\ tasks'[t].next_run_at = NoneVal]_vars

\* C9: every step of execute_task_now on a disabled task leaves the task's enabled
\* flag, handle and persisted next_run_at as they were; the call creates exactly one
\* record, no later step of it adds one, and when it returns the record is terminal.
C9_ManualRunKeepsSchedule ==
    [][\A e \in ExecIds :
          LET t == coro'[e].task_id
              records == {x \in ExecIds : executions[x].present}
          IN  (/\ coro'[e] # coro[e]
               /\ coro'[e].origin = "execute_task_now"
               /\ ~ tasks[t].enabled)
              => /\ tasks'[t].enabled = tasks[t].enabled
                 /\ tasks'[t].next_run_at = tasks[t].next_run_at
                 /\ jobs'[t] = jobs[t]
                 /\ {x \in ExecIds : executions'[x].present}
                      = IF coro[e].pc = "none" THEN records \cup {e} ELSE records
                 /\ coro[e].pc = "none" => e \notin records
                 /\ executions'[e].task_id = t
                 /\ coro'[e].pc = "done"
                    => /\ executions'[e].status \in TerminalStatuses
                       /\ coro'[e].result = "returned"]_vars

\* a manual run of a disabled task has completed; the task is still disabled,
\* without handle and without next_run_at
C9_Witness ==
    \E e \in ExecIds :
        LET t == coro[e].task_id IN
        /\ coro[e].pc = "done"
        /\ coro[e].origin = "execute_task_now"
        /\ executions[e].status = "completed"
        /\ tasks[t].last_run_at # NoneVal
        /\ ~ tasks[t].enabled
        /\ ~ jobs[t].present
        /\ tasks[t].next_run_at = NoneVal

\* C10: execute_task and execute_task_now never raise: no exception leaves them, and
\* every invocation that ended returned a record with a terminal status, carrying an
\* error_message unless it completed.
C10_NeverRaises ==
    /\ raised = 0
    /\ \A e \in ExecIds :
          coro[e].pc = "done"
          => /\ coro[e].result = "returned"
             /\ coro[e].exec.status \in TerminalStatuses
             /\ coro[e].exec.status # "completed" => coro[e].exec.error_message # NoError

\* the handle schedule_task builds at time t for a task whose trigger resolves
FreshJob(task, t) ==
    [present |-> TRUE,
     next_run_time |-> FirstFireTime(ResolveTrigger(task).trigger, t),
     trigger |-> ResolveTrigger(task).trigger]

\* C11: after any sequence of schedule_task, unschedule_task and reload_tasks calls
\* (and of the API handlers built on them) a task's handle, if it has one, carries the
\* trigger resolved from the task as last scheduled; and schedule_task, called there
\* for a task with any resolvable expression, leaves for that task exactly the handle
\* the call builds, whatever handle the task had, and touches no other handle.
C11_ScheduleReplacesHandle ==
    \A t \in TaskIds :
        /\ jobs[t].present
           => /\ is_running
              /\ tasks[t].present
              /\ ResolveTrigger(tasks[t]).res = "ok"
              /\ jobs[t].trigger = ResolveTrigger(tasks[t]).trigger
        /\ \A cron \in CronExprs :
              LET task == [tasks[t] EXCEPT !.cron_expression = cron]
                  st == ScheduleTask([jobs |-> jobs, tasks |-> tasks], is_running,
                                     task, FALSE, now)
              IN  (is_running /\ tasks[t].present /\ ResolveTrigger(task).res = "ok")
                  => /\ st.jobs[t] = FreshJob(task, now)
                     /\ \A u \in TaskIds \ {t} : st.jobs[u] = jobs[u]

\* a task that was scheduled every 5 seconds now has a handle with the trigger of
\* its new 5-field expression, due after the clock
C11_Witness ==
    /\ is_running
    /\ now > 0
    /\ jobs[1].present
    /\ jobs[1].trigger.fields = CronParts(CronFive)
    /\ jobs[1].next_run_time > now
    /\ tasks[1].next_run_at = jobs[1].next_run_time

\* C12: when a scheduled firing starts and the task, read from the ledger at that
\* moment, is missing or disabled, the firing ends there: no record is created, no
\* coroutine and no process is started, and running_processes is unchanged.
C12_MissingOrDisabledSkipped ==
    [][\A t \in TaskIds :
          (/\ submitted[t] # <<>>
           /\ submitted'[t] = Tail(submitted[t])
           /\ ~ tasks[t].present \/ ~ tasks[t].enabled)
          => /\ executions' = executions
             /\ counter' = counter
             /\ coro' = coro
             /\ proc' = proc
             /\ running_processes' = running_processes]_vars

\* a firing of task 1 has been submitted and the task was disabled or deleted before
\* the job started
C12_Witness ==
    /\ submitted[1] # <<>>
    /\ ~ tasks[1].present \/ ~ tasks[1].enabled
    /\ ~ jobs[1].present
    /\ counter < limit

\* C13: stop() empties the Job Registry and leaves every execution in flight as it
\* is: its coroutine goes on, it stays registered while its process is awaited, and
\* so it still ends with a terminal status.
C13_StopSparesExecutions ==
    [][(is_running /\ ~ is_running')
       => /\ \A t \in TaskIds : ~ jobs'[t].present
          /\ \A e \in ExecIds :
                coro[e].pc \notin {"none", "done"}
                => /\ coro'[e] = coro[e]
                   /\ (e \in running_processes') = (e \in running_processes)
          /\ \A e \in ExecIds :
                coro'[e].pc = "done" => executions'[e].status \in TerminalStatuses]_vars

\* the task has a trigger to schedule: it is in the ledger, enabled, and its cron
\* expression or interval resolves
Schedulable(task) ==
    task.present /\ task.enabled /\ ResolveTrigger(task).res = "ok"

\* C14: start() on a stopped scheduler sets is_running and leaves a handle for
\* exactly the enabled tasks whose trigger resolves, each freshly built and with its
\* next run persisted; start() on a running scheduler changes neither the registry
\* nor the ledger.
C14_StartIdempotent ==
    /\ [](LET cur == [jobs |-> jobs, tasks |-> tasks]
              st == StartTasks(cur, is_running, {}, now)
          IN  IF is_running
              THEN st = cur
              ELSE \A t \in TaskIds :
                      /\ st.jobs[t].present = Schedulable(tasks[t])
                      /\ Schedulable(tasks[t])
                         => /\ st.jobs[t] = FreshJob(tasks[t], now)
                            /\ st.tasks[t].next_run_at = st.jobs[t].next_run_time)
    /\ [][(~ is_running /\ is_running')
          => \A t \in TaskIds :
                /\ jobs'[t].present = Schedulable(tasks'[t])
                /\ jobs'[t].present => tasks'[t].next_run_at = jobs'[t].next_run_time]_vars

\* the scheduler was stopped and started again after task 2 was enabled: both tasks
\* have their handle, and a further start() finds the scheduler running
C14_Witness ==
    /\ is_running
    /\ now > 0
    /\ jobs[1].present
    /\ jobs[2].present
    /\ jobs[2].next_run_time = now + Ticks(TermWaitSeconds)

\* C15: while the scheduler is not running a call of its operations (other than
\* start) is a no-op: the registry keeps its handles, no Execution Record is created
\* and no execution is started.
C15_NoOpWhenNotRunning ==
    [][(~ is_running /\ ~ is_running')
       => /\ jobs' = jobs
          /\ counter' = counter
          /\ \A e \in ExecIds :
                /\ executions[e] = NoExecution => executions'[e] = NoExecution
                /\ coro[e].pc = "none" => coro'[e].pc = "none"]_vars

\* C16: reload_tasks on a stopped scheduler changes nothing; on a running scheduler
\* it leaves a handle for exactly the tasks of the ledger that are enabled and have
\* a resolvable trigger, so no handle of a disabled or deleted task survives, and the
\* ledger keeps its tasks and their enabled flags.
C16_ReloadMatchesLedger ==
    LET cur == [jobs |-> jobs, tasks |-> tasks]
        st == ReloadTasks(cur, is_running, {}, now)
    IN  IF ~ is_running
        THEN st = cur
        ELSE \A t \in TaskIds :
                /\ st.jobs[t].present = Schedulable(tasks[t])
                /\ st.tasks[t].present = tasks[t].present
                /\ st.tasks[t].enabled = tasks[t].enabled

\* the scheduler runs and task 2, disabled in the ledger, has a handle from a direct
\* schedule_task call, while task 1 has been deleted: reload_tasks has a handle to drop
C16_Witness ==
    /\ is_running
    /\ jobs[2].present
    /\ ~ tasks[2].enabled
    /\ ~ tasks[1].present

C18_CancelUnregisteredNoOp ==
    \A e \in ExecIds :
        \A outcome \in {"gone", "alive", "error"} :
            \A fail \in BOOLEAN :
                e \notin running_processes
                => CancelResult(e, outcome, fail)
                      = [ret |-> FALSE, now |-> now, executions |-> executions,
                         running_processes |-> running_processes, proc |-> proc]

\* execution 1 has ended and is no longer registered, while its record is in the
\* ledger and its process has exited
C18_Witness ==
    /\ 1 \notin running_processes
    /\ coro[1].pc = "done"
    /\ executions[1].present
    /\ executions[1].status \in {"completed", "failed"}
    /\ proc[1].state = "exited"

\* C19: when the process exits within the timeout, the execution ends with the
\* process's return code as its exit code, completed if and only if that code is 0
\* and otherwise failed with the message that names the code; the Execution Record
\* is persisted so.
C19_NormalExitOutcome ==
    [][\A e \in ExecIds :
          (coro[e].pc = "waiting" /\ coro'[e].pc = "done")
          => LET rc == proc[e].returncode
                 exitText == [kind |-> "exit_code", arg |-> rc]
             IN  /\ proc[e].state = "exited"
                 /\ coro'[e].result = "returned"
                 /\ coro'[e].exec.exit_code = rc
                 /\ executions'[e].present
                 /\ executions'[e].exit_code = rc
                 /\ (executions'[e].status = "completed") = (rc = 0)
                 /\ (coro'[e].exec.status = "completed") = (rc = 0)
                 /\ rc = 0 => executions'[e].error_message = NoError
                 /\ rc # 0 => /\ executions'[e].status = "failed"
                              /\ executions'[e].error_message = exitText
                              /\ coro'[e].exec.status = "failed"
                              /\ coro'[e].exec.error_message = exitText]_vars

\* an execution ended on a process that exited by itself with a code other than 0
C19_Witness ==
    \E e \in ExecIds :
        /\ coro[e].pc = "done"
        /\ coro[e].path = "normal"
        /\ proc[e].returncode = 1
        /\ executions[e].status = "failed"

\* C20: nothing is retried.  A step creates at most one Execution Record, and does so
\* only as an execute_task_now call or as the start of a submitted firing, which if
\* not skipped creates exactly one; the record's coroutine launches a process at most
\* once, and once it has ended (completed, failed or timed out) it stays ended, no
\* record and no process following from it, though the task has max_retries > 0.
C20_NoRetry ==
    [][/\ counter' \in {counter, counter + 1}
       /\ counter' = counter + 1
          => /\ executions'[counter'].present
             /\ \A e \in ExecIds \ {counter'} : executions'[e].present = executions[e].present
             /\ \/ submitted' = submitted
                \/ \E t \in TaskIds : /\ submitted[t] # <<>>
                                      /\ submitted' = [submitted EXCEPT ![t] = Tail(@)]
                                      /\ executions'[counter'].task_id = t
       /\ counter' = counter
          => \A e \in ExecIds : executions'[e].present = executions[e].present
       /\ \A t \in TaskIds :
             (/\ submitted[t] # <<>>
              /\ submitted'[t] = Tail(submitted[t])
              /\ now - Head(submitted[t]) <= Ticks(MisfireGraceSeconds)
              /\ tasks[t].present /\ tasks[t].enabled)
             => counter' = counter + 1
       /\ \A e \in ExecIds :
             /\ coro[e].pc = "done" => coro'[e] = coro[e] /\ proc'[e] = proc[e]
             /\ coro[e].pc \notin {"none", "launching"} => coro'[e].pc # "launching"
             /\ (proc[e].state # "alive" /\ proc'[e].state = "alive")
                => /\ proc[e] = NoProc
                   /\ coro[e].pc = "launching"
             /\ (coro[e].pc # "done" /\ coro'[e].pc = "done")
                => counter' = counter /\ submitted' = submitted]_vars

\* the one execution of task 1, which has max_retries = 2, has ended failed after its
\* process ran, and time has passed since
C20_Witness ==
    /\ tasks[1].max_retries = RetriesConfigured
    /\ counter = 1
    /\ coro[1].pc = "done"
    /\ coro[1].task_id = 1
    /\ executions[1].status = "failed"
    /\ proc[1].state = "exited"
    /\ now > executions[1].started_at

\* C21: an execution that was started ends with a terminal status persisted in its
\* Execution Record and with its id out of running_processes: the step on which its
\* coroutine returns leaves the record so, for after it nothing else finalizes it.
C21_EndsFinalized ==
    [][\A e \in ExecIds :
          (coro[e].pc # "done" /\ coro'[e].pc = "done")
          => /\ executions'[e].present
             /\ executions'[e].status \in TerminalStatuses
             /\ e \notin running_processes']_vars

\* the k-th fire time of a trigger installed at time t
RECURSIVE FireTimeAt(_, _, _)
FireTimeAt(trigger, t, k) ==
    IF k = 0 THEN FirstFireTime(trigger, t)
    ELSE NextFireTime(trigger, FireTimeAt(trigger, t, k - 1))

\* C22: for a valid 5-field cron expression schedule_task resolves the same trigger
\* as for the 6-field expression that has "0" before its fields, installs the same
\* handle and persists the same next_run_at, and the fire times that follow are the
\* same.
C22_FiveFieldAsSixField ==
    \A t \in TaskIds :
        \A expr \in FiveFieldExprs :
            LET five == [tasks[t] EXCEPT !.cron_expression = expr]
                six == [tasks[t] EXCEPT !.cron_expression = <<"0">> \o expr]
                st == [jobs |-> jobs, tasks |-> tasks]
            IN  tasks[t].present
                => /\ ResolveTrigger(five).res = "ok"
                   /\ ResolveTrigger(five) = ResolveTrigger(six)
                   /\ ScheduleTask(st, is_running, five, FALSE, now)
                        = ScheduleTask(st, is_running, six, FALSE, now)
                   /\ \A k \in 0..2 :
                         FireTimeAt(ResolveTrigger(five).trigger, now, k)
                           = FireTimeAt(ResolveTrigger(six).trigger, now, k)

\* task 1, whose stored expression has 5 fields, runs under the trigger of the
\* 6-field expression with seconds "0": once a minute
C22_Witness ==
    /\ is_running
    /\ tasks[1].cron_expression = CronFive
    /\ jobs[1].present
    /\ jobs[1].trigger.fields = <<"0", "*", "*", "*", "*", "*">>
    /\ jobs[1].trigger.period = Ticks(60)
    /\ now > 0

\* interval_seconds values that are no interval: None, zero, negative
NoIntervals == {NoneVal, 0, 0 - TermWaitSeconds}

\* C23: schedule_task installs at most one trigger for a task.  With a valid cron
\* expression and a positive interval both set it installs the cron trigger; with
\* no cron expression and no positive interval it leaves the task without a handle
\* and with no persisted next_run_at; and a task without a handle is never fired by
\* the job store.
C23_OneTriggerPerTask ==
    \A t \in TaskIds :
        LET st == [jobs |-> jobs, tasks |-> tasks] IN
        /\ (jobs[t].present /\ tasks[t].cron_expression # CronNone)
           => jobs[t].trigger.kind = "cron"
        /\ ~ jobs[t].present => ~ ENABLED Fire(t)
        /\ (is_running /\ tasks[t].present)
           => /\ \A cron \in FiveFieldExprs \cup {CronSixFast} :
                    \A interval \in {TermWaitSeconds, 2 * TermWaitSeconds} :
                        LET task == [tasks[t] EXCEPT !.cron_expression = cron,
                                                     !.interval_seconds = interval]
                            r == ScheduleTask(st, is_running, task, FALSE, now)
                        IN  /\ r.jobs[t].present
                            /\ r.jobs[t].trigger.kind = "cron"
                            /\ r.jobs[t].trigger.fields = CronParts(cron)
                            /\ r.tasks[t].next_run_at = r.jobs[t].next_run_time
              /\ \A interval \in NoIntervals :
                    LET task == [tasks[t] EXCEPT !.cron_expression = CronNone,
                                                 !.interval_seconds = interval]
                        r == ScheduleTask(st, is_running, task, FALSE, now)
                    IN  /\ r.jobs[t] = NoJob
                        /\ r.tasks[t].next_run_at = NoneVal
                        /\ \A u \in TaskIds \ {t} : r.jobs[u] = jobs[u]

\* task 2 has an interval and a cron expression and is scheduled by the cron one,
\* while task 1, enabled, has lost its expression and is left to manual runs
C23_Witness ==
    /\ is_running
    /\ tasks[2].interval_seconds > 0
    /\ tasks[2].cron_expression = CronFive
    /\ jobs[2].present
    /\ jobs[2].trigger.kind = "cron"
    /\ tasks[1].enabled
    /\ tasks[1].cron_expression = CronNone
    /\ ~ jobs[1].present
    /\ tasks[1].next_run_at = NoneVal

\* C24: when an execution finishes through execute_task, whether a scheduled firing
\* or an execute_task_now call started it, the owning task's persisted last_run_at
\* is the completion time of that execution, as the execution returns it and as its
\* Execution Record holds it.
C24_LastRunIsCompletion ==
    [][\A e \in ExecIds :
          (coro[e].pc # "done" /\ coro'[e].pc = "done")
          => LET t == coro'[e].task_id IN
             /\ coro'[e].origin \in {"sched", "execute_task_now"}
             /\ coro'[e].exec.completed_at # NoneVal
             /\ executions'[e].completed_at = coro'[e].exec.completed_at
             /\ tasks'[t].last_run_at = coro'[e].exec.completed_at]_vars

\* a scheduled execution finished one tick after it started, and its task's
\* last_run_at is the completion time
C24_Witness ==
    \E e \in ExecIds :
        /\ coro[e].pc = "done"
        /\ coro[e].origin = "sched"
        /\ executions[e].completed_at > executions[e].started_at
        /\ tasks[coro[e].task_id].last_run_at = executions[e].completed_at

\* C25: cancel_task_execution for an execution that is still registered while its
\* process has exited already (the lookup finds no such process) returns true, marks
\* the Execution Record cancelled at the time of the call and removes the id from
\* running_processes; no other record and no process changes.
C25_CancelExitedTolerated ==
    \A e \in ExecIds :
        (e \in running_processes /\ proc[e].state = "exited")
        => LET r == CancelResult(e, "gone", FALSE) IN
           /\ r.ret
           /\ r.executions[e] = [executions[e] EXCEPT !.status = "cancelled",
                                                      !.error_message = CancelledText,
                                                      !.completed_at = now]
           /\ \A x \in ExecIds \ {e} : r.executions[x] = executions[x]
           /\ r.running_processes = running_processes \ {e}
           /\ r.proc = proc
           /\ r.now = now

\* the process of execution 1 exited by itself and, before the coroutine resumed
\* from its wait, the execution was cancelled
C25_Witness ==
    /\ 1 \notin running_processes
    /\ proc[1].state = "exited"
    /\ proc[1].returncode = 0
    /\ coro[1].pc = "waiting"
    /\ executions[1].status = "cancelled"

\* interval_seconds values of one, two and three ticks
IntervalValues == {k * TermWaitSeconds : k \in 1..3}

\* C26: the fire times of an interval trigger lie N seconds apart, counted from its
\* first fire time, N seconds after the activation.  Whenever the job store looks at
\* the due job, however late and whatever the task's executions do, the fire time
\* it runs is one of them (the last that is due) and the handle moves to the one
\* that follows it.
C26_IntervalGrid ==
    /\ [](\A t \in TaskIds : \A N \in IntervalValues : \A late \in 0..MaxLate :
            LET task == [tasks[t] EXCEPT !.cron_expression = CronNone,
                                         !.interval_seconds = N]
                job == FreshJob(task, now)
                seen == job.next_run_time + late
                run_time == LastRunTime(job, seen)
                next == NextFireTime(job.trigger, run_time)
            IN  /\ job.trigger.kind = "interval"
                /\ job.trigger.period * TermWaitSeconds = N
                /\ job.next_run_time = now + job.trigger.period
                /\ \A k \in 0..2 :
                      FireTimeAt(job.trigger, now, k + 1) - FireTimeAt(job.trigger, now, k)
                        = job.trigger.period
                /\ \E k \in 0..MaxLate : run_time = FireTimeAt(job.trigger, now, k)
                /\ run_time <= seen
                /\ seen < next
                /\ next = run_time + job.trigger.period)
    /\ [][\A t \in TaskIds :
             (/\ jobs[t].present /\ jobs'[t].present
              /\ jobs[t].trigger.kind = "interval"
              /\ jobs'[t].next_run_time # jobs[t].next_run_time)
             => LET N == jobs[t].trigger.period IN
                /\ jobs'[t].trigger = jobs[t].trigger
                /\ jobs[t].next_run_time <= now
                /\ (jobs'[t].next_run_time - jobs[t].next_run_time) % N = 0
                /\ jobs'[t].next_run_time > now
                /\ jobs'[t].next_run_time - N <= now
                /\ submitted'[t] # submitted[t]
                   => submitted'[t] = Append(submitted[t], jobs'[t].next_run_time - N)]_vars

\* task 2 runs every 5 seconds since it was enabled at time 0; the job store looked
\* at it one tick late and the handle has moved past the fire times it missed
C26_Witness ==
    /\ jobs[2].present
    /\ jobs[2].trigger.kind = "interval"
    /\ now = 2
    /\ jobs[2].next_run_time = 3
    /\ submitted[2] = <<2>>

\* C27: a firing that starts more than the grace time (30 s) after its fire time is
\* dropped: no Execution Record, no coroutine and no process comes of it, and the
\* handle, if the task still has one, points to a later fire time.  A firing that
\* starts within the grace time of an enabled task is run.  When several fire times
\* of a job are due at once, a single run is submitted, for the last of them, and
\* the handle moves past the clock.
C27_MisfireDroppedAndCoalesced ==
    [][\A t \in TaskIds :
          /\ (submitted[t] # <<>> /\ submitted'[t] = Tail(submitted[t]))
             => IF now - Head(submitted[t]) > Ticks(MisfireGraceSeconds)
                THEN /\ executions' = executions
                     /\ counter' = counter
                     /\ coro' = coro
                     /\ proc' = proc
                     /\ running_processes' = running_processes
                     /\ jobs' = jobs
                     /\ jobs[t].present => jobs[t].next_run_time > Head(submitted[t])
                ELSE (tasks[t].present /\ tasks[t].enabled)
                     => /\ counter' = counter + 1
                        /\ executions'[counter'].task_id = t
          /\ (/\ jobs[t].present /\ jobs'[t].present
              /\ jobs'[t].next_run_time # jobs[t].next_run_time
              /\ now - jobs[t].next_run_time >= jobs[t].trigger.period)
             => /\ jobs'[t].next_run_time > now
                /\ submitted'[t] # submitted[t]
                   => /\ submitted'[t] = Append(submitted[t], LastRunTime(jobs[t], now))
                      /\ now - LastRunTime(jobs[t], now) < jobs[t].trigger.period]_vars

\* the firing of task 1 for the fire time of tick 1 was submitted and then dropped,
\* the event loop having been held up for more than 30 s: no execution was created,
\* and the handle is at a later fire time
C27_Witness ==
    /\ is_running
    /\ tasks[1].enabled
    /\ counter = 0
    /\ submitted[1] = <<>>
    /\ jobs[1].present
    /\ jobs[1].next_run_time = 2
    /\ now > 1 + Ticks(MisfireGraceSeconds)

\* C28: when a task is created enabled with a valid cron expression while the
\* scheduler runs, the expression the ledger holds for it is the normalized 6-field
\* one its trigger was built from, and the persisted next_run_at is the handle's
\* next fire time, after the time of creation.
C28_CreateStoresNormalizedCron ==
    [][\A t \in TaskIds :
          (/\ ~ tasks[t].present /\ tasks'[t].present
           /\ is_running /\ tasks'[t].enabled
           /\ tasks'[t].cron_expression # CronNone
           /\ jobs'[t].present)
          => /\ Len(tasks'[t].cron_expression) = 6
             /\ tasks'[t].cron_expression = jobs'[t].trigger.fields
             /\ tasks'[t].next_run_at = jobs'[t].next_run_time
             /\ tasks'[t].next_run_at > now]_vars

\* C29: is_task_running(t) holds exactly for the task ids that
\* get_running_task_ids returns, and a task for which a process is alive and
\* registered in running_processes is reported as running by both.
C29_LiveProcessReported ==
    \A t \in TaskIds :
        /\ IsTaskRunning(t) <=> t \in GetRunningTaskIds
        /\ (\E e \in running_processes : proc[e].state = "alive" /\ coro[e].task_id = t)
           => IsTaskRunning(t) /\ t \in GetRunningTaskIds

\* C30: the step that ends the execution of a scheduled firing persists the handle's
\* next fire time as the task's next_run_at; and whenever a task has a handle and no
\* scheduled firing of it is submitted or executing, the persisted next_run_at is
\* the handle's next fire time.
C30_NextRunMatchesHandle ==
    /\ [](\A t \in TaskIds :
            (jobs[t].present /\ Instances(t) = 0)
            => tasks[t].next_run_at = jobs[t].next_run_time)
    /\ [][\A e \in ExecIds :
             (/\ coro[e].pc # "done" /\ coro'[e].pc = "done"
              /\ coro[e].origin = "sched"
              /\ jobs[coro[e].task_id].present)
             => tasks'[coro[e].task_id].next_run_at
                  = jobs'[coro[e].task_id].next_run_time]_vars

\* C31: after any sequence of start, stop and the API operations that create, update,
\* toggle and delete tasks, every handle of the Job Registry belongs to a task that
\* is in the ledger and enabled there.
C31_HandleOnlyForEnabledTask ==
    \A t \in TaskIds :
        jobs[t].present => tasks[t].present /\ tasks[t].enabled

\* the scheduler runs; task 1 was disabled and task 2, created through the API, was
\* deleted again: neither has a handle
C31_Witness ==
    /\ is_running
    /\ tasks[1].present
    /\ ~ tasks[1].enabled
    /\ ~ jobs[1].present
    /\ ~ tasks[2].present
    /\ tasks[2].id = 2
    /\ ~ jobs[2].present

\* C32: when a scheduled execution finishes while its task has no handle (the task
\* was disabled or unscheduled while the execution was in flight), the task still has
\* no handle afterwards and its persisted next_run_at, absent before, is still absent.
C32_NoNextRunWithoutHandle ==
    [][\A e \in ExecIds :
          LET t == coro[e].task_id IN
          (/\ coro[e].origin = "sched"
           /\ coro[e].pc # "done"
           /\ coro'[e].pc = "done"
           /\ ~ jobs[t].present)
          => /\ ~ jobs'[t].present
             /\ tasks[t].next_run_at = NoneVal
             /\ tasks'[t].next_run_at = NoneVal]_vars

\* the scheduled execution of task 1 has finished and recorded its last run; the
\* task is disabled, has no handle and no next_run_at
C32_Witness ==
    /\ coro[1].pc = "done"
    /\ coro[1].origin = "sched"
    /\ coro[1].task_id = 1
    /\ executions[1].present
    /\ executions[1].status = "completed"
    /\ tasks[1].present
    /\ ~ tasks[1].enabled
    /\ tasks[1].last_run_at # NoneVal
    /\ ~ jobs[1].present
    /\ tasks[1].next_run_at = NoneVal

\* C33: between event-loop steps, every execution id in running_processes has a
\* persisted Execution Record that is absent (its task was deleted) or has status
\* running; no id whose persisted status is pending or terminal is in the table.
C33_RegisteredIsRunning ==
    \A e \in running_processes :
        executions[e].present => executions[e].status = "running"

\* execution 1 is registered and waits for its process while its record, status
\* running, is in the ledger
C33_Witness ==
    /\ 1 \in running_processes
    /\ coro[1].pc = "waiting"
    /\ executions[1].present
    /\ executions[1].status = "running"
    /\ executions[1].started_at # NoneVal

\* task t was deleted from the ledger
Deleted(t) == ~ tasks[t].present /\ tasks[t].id = t

\* C34: from the deletion of a task on, the ledger holds no Task Definition with its
\* id and no Execution Record of it: neither one that names the task nor the record
\* of an execution started for it, also after that execution has completed.
C34_DeletedStaysDeleted ==
    /\ [](\A t \in TaskIds :
            Deleted(t) =>
                \A e \in ExecIds :
                    /\ executions[e].present => executions[e].task_id # t
                    /\ (coro[e].pc # "none" /\ coro[e].task_id = t)
                           => ~ executions[e].present)
    /\ [][\A t \in TaskIds : Deleted(t) => Deleted(t)']_vars

\* task 1 was deleted while its execution 1 was in flight; the execution has
\* completed since and the ledger holds neither its record nor the task
C34_Witness ==
    /\ Deleted(1)
    /\ coro[1].task_id = 1
    /\ coro[1].pc = "done"
    /\ coro[1].exec.status = "completed"
    /\ coro[1].exec.completed_at > coro[1].exec.started_at
    /\ ~ executions[1].present

\* C35: whatever tasks and Execution Records were deleted before, a newly created
\* Execution Record gets the id one above the last id handed out: an id no execution
\* had before, above the ids of all earlier executions, and not a key of
\* running_processes.
C35_FreshExecutionIds ==
    [][\A e \in ExecIds :
          (~ executions[e].present /\ executions'[e].present)
          => /\ e = counter + 1
             /\ counter' = e
             /\ coro[e].pc = "none"
             /\ e \notin running_processes
             /\ \A e2 \in ExecIds : coro[e2].pc # "none" => e2 < e]_vars

\* the record of execution 1 was removed while both tasks stayed; execution 2 was
\* created with the next id, and both processes are registered under their own ids
C35_Witness ==
    /\ counter = 2
    /\ tasks[1].present
    /\ tasks[2].present
    /\ ~ executions[1].present
    /\ executions[2].present
    /\ coro[1].task_id = 2
    /\ executions[2].task_id = 1
    /\ running_processes = {1, 2}

\* cron expressions schedule_task rejects: a wrong field count, an unparsable field
InvalidCronExprs ==
    {cron \in CronExprs \ {CronNone} :
        ~ (Len(CronParts(cron)) = 6 /\ CronFieldsParse(CronParts(cron)))}

\* C36: a task with an invalid cron expression and a positive interval_seconds has
\* no handle in any state the registry operations lead to; and schedule_task, called
\* for a task with a positive interval whose expression is replaced by an invalid
\* one, leaves the task without handle, whatever handle it had, and touches no other
\* handle: it does not fall back to the interval.
C36_InvalidCronNoIntervalFallback ==
    \A t \in TaskIds :
        (tasks[t].present /\ tasks[t].interval_seconds # NoneVal
                          /\ tasks[t].interval_seconds > 0)
        => /\ tasks[t].cron_expression \in InvalidCronExprs => ~ jobs[t].present
           /\ \A cron \in InvalidCronExprs :
                 LET task == [tasks[t] EXCEPT !.cron_expression = cron]
                     st == ScheduleTask([jobs |-> jobs, tasks |-> tasks], is_running,
                                        task, FALSE, now)
                 IN  is_running
                     => /\ ~ st.jobs[t].present
                        /\ \A u \in TaskIds \ {t} : st.jobs[u] = jobs[u]

\* the scheduler runs and time has passed; task 2, enabled, with an interval of 5 s
\* and an expression of three fields, has no handle
C36_Witness ==
    /\ is_running
    /\ now > 0
    /\ tasks[2].present
    /\ tasks[2].enabled
    /\ tasks[2].cron_expression = CronThree
    /\ tasks[2].interval_seconds = TermWaitSeconds
    /\ ~ jobs[2].present

\* C37: execute_task_now for a task id the ledger does not hold returns without
\* running anything.  So an execution begins, and an Execution Record is created,
\* only for a task the ledger holds at that moment; and a process is launched and
\* registered only by an execution that was begun and waits for its launch.
C37_MissingTaskNoEffect ==
    /\ [](\A t \in TaskIds : ~ tasks[t].present => ~ ExecuteTaskNowRuns(tasks, t))
    /\ [][\A e \in ExecIds :
              /\ (coro[e].pc = "none" /\ coro'[e].pc # "none")
                 => /\ tasks[coro'[e].task_id].present
                    /\ tasks[coro'[e].task_id].id = coro'[e].task_id
                    /\ executions'[e].task_id = coro'[e].task_id
              /\ (~ executions[e].present /\ executions'[e].present)
                 => tasks[executions'[e].task_id].present
              /\ (proc[e].state = "none" /\ proc'[e].state # "none")
                 => coro[e].pc = "launching"
              /\ (e \notin running_processes /\ e \in running_processes')
                 => coro[e].pc = "launching"]_vars

\* task 1 was deleted and execute_task_now can be called for it; an execution of
\* task 2 is in flight, and nothing in the ledger or the tables belongs to task 1
C37_Witness ==
    /\ Deleted(1)
    /\ counter < limit
    /\ ~ ExecuteTaskNowRuns(tasks, 1)
    /\ running_processes = {1}
    /\ coro[1].task_id = 2
    /\ \A e \in ExecIds : executions[e].present => executions[e].task_id = 2
    /\ \A e \in ExecIds : coro[e].pc # "none" => coro[e].task_id = 2
    /\ ~ jobs[1].present

\* C38: every Execution Record whose persisted status is terminal has a completion
\* time, and when it also has a start time the completion time is not earlier than
\* the start time and duration_seconds is the completion time minus the start time
\* (times are ticks of TermWaitSeconds seconds).
C38_TerminalRecordTimes ==
    \A e \in ExecIds :
        (executions[e].present /\ executions[e].status \in TerminalStatuses)
        => /\ executions[e].completed_at # NoneVal
           /\ executions[e].started_at # NoneVal
              => /\ executions[e].completed_at >= executions[e].started_at
                 /\ executions[e].duration_seconds
                      = (executions[e].completed_at - executions[e].started_at)
                            * TermWaitSeconds

=============================================================================
